---- MODULE Spec2Model ----
(***************************************************************************)
(* Model of the fake engine of sacloud/phy-api-go (package fake): the      *)
(* in-memory record store guarded by one sync.RWMutex, the operations of   *)
(* the server API, and the background update actions they launch.          *)
(*                                                                         *)
(* Every operation is a Go function that starts with                       *)
(*     defer engine.rLock()()     or     defer engine.lock()()             *)
(* so a call is modelled as: the entry step (the lock is acquired and the  *)
(* body runs while it is held; a body that writes the store twice takes a  *)
(* second step), and the return step (the deferred unlock).                *)
(* A background action is a goroutine running engine.startUpdateAction.    *)
(***************************************************************************)
EXTENDS Integers, Sequences, FiniteSets, TLC

\* ------------------------------------------------------------------ bounds

\* The number of API calls issued in one behaviour of Spec.
MaxCalls == 3

\* The number of API calls issued in one behaviour of SpecPorts.
MaxPortCalls == 2

\* Concurrent callers of the engine.
Clients == {1, 2}

\* ------------------------------------------------------------- seed data

\* The identifiers of the seeded server records.
ServerIds == {"s1", "s2"}
\* The server identifiers the callers pass: a seeded one and one that matches
\* no record (server s2 is the bystander whose record no call may change).
RequestServerIds == {"s1", "s9"}

\* Server.OSImages: the installable images of each server.
OSImages(s) == IF s = "s1" THEN {"img1"} ELSE {"img2"}
RequestOsImageIds == {"img1", "img2"}

\* PowerControlParameter.Operation: the four known values and an unknown one.
PowerOperations == {"on", "reset", "soft", "off", "cycle"}

\* Optional (pointer) values: nil is <<>>, a set pointer is <<v>>.
None == <<>>
Some(x) == <<x>>

ServerLockStatusOsInstall == "os_install"

\* The read-only catalogs: engine.DedicatedSubnets and engine.PrivateNetworks.
DedicatedSubnetIds == {"ds1"}
PrivateNetworkIds == {"pn1", "pn2"}

\* ConfigureBondingParameter.BondingType: the three known values and an unknown one.
BondingTypes == {"lacp", "static", "single", "mlag"}

\* ConfigureBondingParameter.PortNicknames: nil, or a list of 0 to 3 names.
RequestPortNicknames ==
    {None, Some(<<>>), Some(<<"">>), Some(<<"a">>), Some(<<"a", "b">>),
     Some(<<"a", "b", "c">>)}

\* The port channel identifiers the callers pass: the two seeded ones and one
\* that matches none.
RequestPortChannelIds == {1, 2, 9}

\* AssignNetworkParameter: the internet type (nil, the two known values, an
\* unknown one), the dedicated subnet id (read only for dedicated-subnet: nil,
\* in the catalog, not in the catalog), the mode (access, trunk, neither) and
\* the private network ids (nil, or a list of 0, 1, 2 or 3 ids, known or not).
AssignNetworkParameters ==
    { [InternetType |-> it, DedicatedSubnetId |-> ds, Mode |-> m, PrivateNetworkIds |-> pn] :
        it \in {None, Some("common-subnet"), Some("dedicated-subnet"), Some("ipv6")},
        ds \in {None, Some("ds1"), Some("ds9")},
        m \in {"access", "trunk", ""},
        pn \in {None, Some(<<>>), Some(<<"pn1">>), Some(<<"pn2", "pn1", "pn2">>),
                Some(<<"pn1", "pn9">>)} }

\* The requests the callers make: every value of each of the three parts
\* (internet, mode, private networks) with the other two absent, and the
\* combinations in which a later part is applied after an earlier one.
RequestAssignNetworkParameters ==
    { q \in AssignNetworkParameters :
        /\ q.InternetType # Some("dedicated-subnet") => q.DedicatedSubnetId = None
        /\ \/ Cardinality({x \in {1, 2, 3} :
                              \/ x = 1 /\ q.InternetType # None
                              \/ x = 2 /\ q.Mode # ""
                              \/ x = 3 /\ q.PrivateNetworkIds # None}) <= 1
           \/ /\ q.InternetType = Some("common-subnet") /\ q.Mode = "access"
              /\ q.PrivateNetworkIds \in {Some(<<"pn1">>), Some(<<"pn1", "pn9">>)}
           \/ /\ q.InternetType = Some("dedicated-subnet") /\ q.Mode = "trunk"
              /\ q.PrivateNetworkIds = Some(<<"pn2", "pn1", "pn2">>) }

\* UpdateServerPortParameter.Nickname
RequestNicknames == {"b"}

VARIABLES
    servers,      \* engine.Servers: server id -> record
    GeneratedID,  \* engine.GeneratedID, the last identifier issued
    now,          \* the clock read by time.Now()
    mu,           \* engine.mu: the writer and the readers holding it
    tasks,        \* the goroutines running startUpdateAction
    nextTask,     \* identity of the next goroutine / allocated object
    pc,           \* client -> "idle" | "mid" | "ret"
    call,         \* client -> the operation in progress and its arguments
    result,       \* client -> what the operation in progress returns
    held,         \* client -> the value the last call handed to the caller
    calls         \* number of calls issued so far

vars == <<servers, GeneratedID, now, mu, tasks, nextTask, pc, call, result, held, calls>>

\* ------------------------------------------------------------- the mutex

NoHolder == [kind |-> "none", id |-> 0]
ClientHolder(c) == [kind |-> "client", id |-> c]
TaskHolder(t) == [kind |-> "task", id |-> t]

\* engine.rLock(): sync.RWMutex.RLock, blocks while a writer holds the mutex.
rLock(c) ==
    /\ mu.writer = NoHolder
    /\ mu' = [mu EXCEPT !.readers = @ \cup {c}]

\* engine.lock(): sync.RWMutex.Lock, blocks while anyone holds the mutex.
lock(h) ==
    /\ mu.writer = NoHolder
    /\ mu.readers = {}
    /\ mu' = [mu EXCEPT !.writer = h]

\* The release function both return: RUnlock / Unlock of what h holds.
release(h) ==
    mu' = [writer  |-> IF mu.writer = h THEN NoHolder ELSE mu.writer,
           readers |-> IF h.kind = "client" THEN mu.readers \ {h.id} ELSE mu.readers]

\* ------------------------------------------------------------ the results

NoVal == [kind |-> "none"]
NoCall == [op |-> "none"]
NoResult == [err |-> "none", what |-> "", msg |-> "", val |-> NoVal]
OK == [err |-> "", what |-> "", msg |-> "", val |-> NoVal]
Value(v) == [err |-> "", what |-> "", msg |-> "", val |-> v]
\* NewError(ErrorTypeX, resource kind, id): no message.
NewError(type, what) == [err |-> type, what |-> what, msg |-> "", val |-> NoVal]
\* NewError(ErrorTypeX, resource kind, id, format, arg): msg is the formatted
\* message.
NewErrorf(type, what, msg) == [err |-> type, what |-> what, msg |-> msg, val |-> NoVal]
\* A panic that leaves the function (the deferred release still runs).
Panic == [err |-> "panic", what |-> "", msg |-> "", val |-> NoVal]

\* fmt.Sprintf(format, arg) with one %s verb and a string operand.
Sprintf_s(prefix, str) == prefix \o str
\* fmt.Sprintf(format, arg) with one %s verb and a *string operand: the verb
\* does not apply to a pointer and fmt prints the type and the address, not
\* the string pointed to.
Sprintf_s_pointer(prefix, ptr) == prefix \o "%!s(*string=0xc000010000)"

\* ------------------------------------------------------------ the lookups

getServerById(serverId) ==
    IF serverId \in DOMAIN servers THEN Some(serverId) ELSE None

\* ----------------------------------------------------------- Init

\* A port as ServerConfigureBonding creates it: enabled, no network assigned.
NewPort(portId, nickname, portChannelId) ==
    [ PortId              |-> portId,
      Nickname            |-> nickname,
      Enabled             |-> TRUE,
      PortChannelId       |-> portChannelId,
      Internet            |-> None,
      Mode                |-> None,
      PrivateNetworks     |-> <<>>,
      GlobalBandwidthMbps |-> None,
      LocalBandwidthMbps  |-> None ]

\* Server s1 is seeded as ServerConfigureBonding(s1, 1, lacp) leaves it: one
\* port, identifier 1, on port channel 1.
SeedPort == NewPort(1, "1gbe", 1)

SeedServer(s) ==
    [ LockStatus        |-> None,
      PowerStatus       |-> [ref |-> 0, Status |-> IF s = "s1" THEN "on" ELSE "off"],
      CachedPowerStatus |-> [ref |-> 0, Status |-> IF s = "s1" THEN "on" ELSE "off",
                             Stored |-> 0],
      RaidStatus        |-> [ref |-> 0, OverallStatus |-> "ok"],
      Ports             |-> IF s = "s1" THEN <<SeedPort>> ELSE <<>>,
      PortChannels      |-> IF s = "s1"
                            THEN << [PortChannelId |-> 1, LinkSpeedType |-> "1gbe",
                                     Ports |-> <<1>>],
                                    [PortChannelId |-> 2, LinkSpeedType |-> "10gbe",
                                     Ports |-> <<>>] >>
                            ELSE <<>> ]

Init ==
    /\ servers = [s \in ServerIds |-> SeedServer(s)]
    /\ GeneratedID = 1
    /\ now = 1
    /\ mu = [writer |-> NoHolder, readers |-> {}]
    /\ tasks = {}
    /\ nextTask = 1
    /\ pc = [c \in Clients |-> "idle"]
    /\ call = [c \in Clients |-> NoCall]
    /\ result = [c \in Clients |-> NoResult]
    /\ held = [c \in Clients |-> NoVal]
    /\ calls = 0

\* Entry of an operation: client c, idle, calls operation o. The conjunct that
\* names the operation takes the lock in the same step and runs the body up to
\* position p, where the return value r is known (p = "ret") or not yet.
Enter(c, o, p, r) ==
    /\ pc[c] = "idle"
    /\ calls' = calls + 1
    /\ pc' = [pc EXCEPT ![c] = p]
    /\ call' = [call EXCEPT ![c] = o]
    /\ result' = [result EXCEPT ![c] = r]
    /\ held' = [held EXCEPT ![c] = NoVal]

\* The return step: the deferred release runs and the caller gets the value,
\* which it keeps (keep = TRUE) or only looks at.
ReturnTo(c, keep) ==
    /\ pc[c] = "ret"
    /\ release(ClientHolder(c))
    /\ pc' = [pc EXCEPT ![c] = "idle"]
    /\ held' = [held EXCEPT ![c] = IF keep THEN result[c].val ELSE NoVal]
    /\ call' = [call EXCEPT ![c] = NoCall]
    /\ result' = [result EXCEPT ![c] = NoResult]
    /\ UNCHANGED <<servers, GeneratedID, now, tasks, nextTask, calls>>

\* A caller that keeps what it is handed, and may write to it afterwards.
ReturnKept(c) == ReturnTo(c, TRUE)

\* A caller that keeps nothing.
Return(c) == ReturnTo(c, FALSE)

\* The end of a later body step: the return value r is known.
Leave(c, r) ==
    /\ pc' = [pc EXCEPT ![c] = "ret"]
    /\ result' = [result EXCEPT ![c] = r]
    /\ UNCHANGED <<mu, call, held, calls>>

\* go engine.startUpdateAction(...): a new goroutine, not yet running.
Spawn(kind, s, status) ==
    /\ tasks' = tasks \cup {[id |-> nextTask, kind |-> kind, server |-> s,
                             status |-> status, pc |-> "sleep"]}
    /\ nextTask' = nextTask + 1

\* --------------------------------------------- OS install and power control

\* A variant of the finishing closure that leaves the lock status set.
startOSInstallFinish_keepsLock(t) ==
    /\ t \in tasks /\ t.kind = "osFinish" /\ t.pc = "run"
    /\ servers' = [servers EXCEPT ![t.server].LockStatus = Some(ServerLockStatusOsInstall)]
    /\ tasks' = tasks \ {t}
    /\ release(TaskHolder(t.id))
    /\ UNCHANGED <<GeneratedID, now, nextTask, pc, call, result, held, calls>>

\* Engine.startOSInstall, the closure passed to the inner startUpdateAction
\* ("finish"): the lock status is cleared.
startOSInstallFinish(t) ==
    /\ t \in tasks /\ t.kind = "osFinish" /\ t.pc = "run"
    /\ servers' = [servers EXCEPT ![t.server].LockStatus = None]
    /\ tasks' = tasks \ {t}
    /\ release(TaskHolder(t.id))
    /\ UNCHANGED <<GeneratedID, now, nextTask, pc, call, result, held, calls>>

\* A variant of the starting closure that calls the inner startUpdateAction
\* itself instead of launching it with go: the same goroutine, still holding
\* the mutex, goes on to wait for it.
startOSInstallStart_inlineFinish(t) ==
    /\ t \in tasks /\ t.kind = "osStart" /\ t.pc = "run"
    /\ servers' = [servers EXCEPT ![t.server].LockStatus = Some(ServerLockStatusOsInstall)]
    /\ tasks' = (tasks \ {t}) \cup {[id |-> t.id, kind |-> "osFinish",
                                     server |-> t.server, status |-> "", pc |-> "sleep"]}
    /\ UNCHANGED <<GeneratedID, now, mu, nextTask, pc, call, result, held, calls>>

\* A variant of the starting closure that launches the finishing closure as a
\* bare goroutine, not through startUpdateAction.
startOSInstallStart_bareFinish(t) ==
    /\ t \in tasks /\ t.kind = "osStart" /\ t.pc = "run"
    /\ servers' = [servers EXCEPT ![t.server].LockStatus = Some(ServerLockStatusOsInstall)]
    /\ tasks' = (tasks \ {t}) \cup {[id |-> nextTask, kind |-> "osFinish",
                                     server |-> t.server, status |-> "", pc |-> "run"]}
    /\ nextTask' = nextTask + 1
    /\ release(TaskHolder(t.id))
    /\ UNCHANGED <<GeneratedID, now, pc, call, result, held, calls>>

\* Engine.startOSInstall, the closure passed to the outer startUpdateAction
\* ("start"): the lock status is set and the finishing goroutine is launched.
startOSInstallStart(t) ==
    /\ t \in tasks /\ t.kind = "osStart" /\ t.pc = "run"
    /\ servers' = [servers EXCEPT ![t.server].LockStatus = Some(ServerLockStatusOsInstall)]
    /\ tasks' = (tasks \ {t}) \cup {[id |-> nextTask, kind |-> "osFinish",
                                     server |-> t.server, status |-> "", pc |-> "sleep"]}
    /\ nextTask' = nextTask + 1
    /\ release(TaskHolder(t.id))
    /\ UNCHANGED <<GeneratedID, now, pc, call, result, held, calls>>

\* Engine.startOSInstall: the goroutine is launched, nothing else is done.
startOSInstall(s) ==
    /\ Spawn("osStart", s, "")
    /\ UNCHANGED <<servers, GeneratedID, now>>

\* A variant of the switch with "reset" in the powered-off case.
PowerStatusOf_resetOff(operation) ==
    CASE operation \in {"on"} -> "on"
      [] operation \in {"reset", "soft", "off"} -> "off"
      [] OTHER -> ""

\* Engine.startServerPowerControl, the switch on params.Operation: the zero
\* value "" is kept for an operation that matches no case.
PowerStatusOf(operation) ==
    CASE operation \in {"on", "reset"} -> "on"
      [] operation \in {"soft", "off"} -> "off"
      [] OTHER -> ""

\* Engine.startServerPowerControl: the statuses are computed by the caller,
\* the goroutine that stores them is launched.
startServerPowerControl(s, operation) ==
    /\ Spawn("power", s, PowerStatusOf(operation))
    /\ UNCHANGED <<servers, GeneratedID, now>>

\* The closure of startServerPowerControl, first assignment:
\* server.PowerStatus = &openapi.ServerPowerStatus{...}
startServerPowerControlPowerStatus(t) ==
    /\ t \in tasks /\ t.kind = "power" /\ t.pc = "run"
    /\ servers' = [servers EXCEPT ![t.server].PowerStatus =
                                      [ref |-> t.id, Status |-> t.status]]
    /\ tasks' = (tasks \ {t}) \cup {[t EXCEPT !.pc = "mid"]}
    /\ UNCHANGED <<GeneratedID, now, mu, nextTask, pc, call, result, held, calls>>

\* The closure of startServerPowerControl, second assignment:
\* server.Server.CachedPowerStatus = &openapi.CachedPowerStatus{..., time.Now()}
startServerPowerControlCached(t) ==
    /\ t \in tasks /\ t.kind = "power" /\ t.pc = "mid"
    /\ servers' = [servers EXCEPT ![t.server].CachedPowerStatus =
                                      [ref |-> t.id, Status |-> t.status, Stored |-> now]]
    /\ now' = now + 1
    /\ tasks' = tasks \ {t}
    /\ release(TaskHolder(t.id))
    /\ UNCHANGED <<GeneratedID, nextTask, pc, call, result, held, calls>>

\* engine.startUpdateAction(action): the goroutine takes the write lock, runs
\* the action and releases the lock.
startUpdateAction(t) ==
    /\ t \in tasks /\ t.pc = "sleep"
    /\ lock(TaskHolder(t.id))
    /\ tasks' = (tasks \ {t}) \cup {[t EXCEPT !.pc = "run"]}
    /\ UNCHANGED <<servers, GeneratedID, now, nextTask, pc, call, result, held, calls>>

\* A variant of OSInstall that does not look the image up.
OSInstall_anyImage(c, serverId, osImageId) ==
    /\ rLock(c)
    /\ LET o == [op |-> "OSInstall", serverId |-> serverId, osImageId |-> osImageId]
           s == getServerById(serverId)
       IN  IF s # None
           THEN IF servers[s[1]].LockStatus # None
                THEN /\ Enter(c, o, "ret", NewError("Conflict", "server"))
                     /\ UNCHANGED <<servers, GeneratedID, now, tasks, nextTask>>
                ELSE /\ startOSInstall(s[1])
                     /\ Enter(c, o, "ret", OK)
           ELSE /\ Enter(c, o, "ret", NewError("NotFound", "server"))
                /\ UNCHANGED <<servers, GeneratedID, now, tasks, nextTask>>

\* Engine.OSInstall
OSInstall(c, serverId, osImageId) ==
    /\ rLock(c)
    /\ LET o == [op |-> "OSInstall", serverId |-> serverId, osImageId |-> osImageId]
           s == getServerById(serverId)
       IN  IF s # None
           THEN IF servers[s[1]].LockStatus # None
                THEN /\ Enter(c, o, "ret", NewError("Conflict", "server"))
                     /\ UNCHANGED <<servers, GeneratedID, now, tasks, nextTask>>
                ELSE IF osImageId \in OSImages(s[1])
                     THEN /\ startOSInstall(s[1])
                          /\ Enter(c, o, "ret", OK)
                     ELSE /\ Enter(c, o, "ret", NewError("NotFound", "os-image"))
                          /\ UNCHANGED <<servers, GeneratedID, now, tasks, nextTask>>
           ELSE /\ Enter(c, o, "ret", NewError("NotFound", "server"))
                /\ UNCHANGED <<servers, GeneratedID, now, tasks, nextTask>>

\* A variant of ServerPowerControl without the check of the lock status.
ServerPowerControl_noLockCheck(c, serverId, operation) ==
    /\ rLock(c)
    /\ LET o == [op |-> "ServerPowerControl", serverId |-> serverId,
                 operation |-> operation]
           s == getServerById(serverId)
       IN  IF s # None
           THEN /\ startServerPowerControl(s[1], operation)
                /\ Enter(c, o, "ret", OK)
           ELSE /\ Enter(c, o, "ret", NewError("NotFound", "server"))
                /\ UNCHANGED <<servers, GeneratedID, now, tasks, nextTask>>

\* Engine.ServerPowerControl
ServerPowerControl(c, serverId, operation) ==
    /\ rLock(c)
    /\ LET o == [op |-> "ServerPowerControl", serverId |-> serverId,
                 operation |-> operation]
           s == getServerById(serverId)
       IN  IF s # None
           THEN IF servers[s[1]].LockStatus # None
                THEN /\ Enter(c, o, "ret", NewError("Conflict", "server"))
                     /\ UNCHANGED <<servers, GeneratedID, now, tasks, nextTask>>
                ELSE /\ startServerPowerControl(s[1], operation)
                     /\ Enter(c, o, "ret", OK)
           ELSE /\ Enter(c, o, "ret", NewError("NotFound", "server"))
                /\ UNCHANGED <<servers, GeneratedID, now, tasks, nextTask>>

\* ------------------------------------------------------------- the reads

\* deepcopy.Copy(&server, s.Server): a value that shares nothing with the store.
CopyOfServer(s) ==
    [ kind              |-> "Server",
      ServerId          |-> s,
      LockStatus        |-> servers[s].LockStatus,
      CachedPowerStatus |-> [Status |-> servers[s].CachedPowerStatus.Status,
                             Stored |-> servers[s].CachedPowerStatus.Stored],
      Ports             |-> servers[s].Ports,
      PortChannels      |-> servers[s].PortChannels ]

\* Engine.ReadServer
ReadServer(c, serverId) ==
    /\ rLock(c)
    /\ LET o == [op |-> "ReadServer", serverId |-> serverId]
           s == getServerById(serverId)
       IN  IF s # None
           THEN Enter(c, o, "ret", Value(CopyOfServer(s[1])))
           ELSE Enter(c, o, "ret", NewError("NotFound", "server"))
    /\ UNCHANGED <<servers, GeneratedID, now, tasks, nextTask>>

\* *s.Server: a copy of the struct, whose pointer fields still point into the
\* store (the cached power status keeps the identity of the stored object).
ShallowCopyOfServer(s) ==
    [ ServerId          |-> s,
      LockStatus        |-> servers[s].LockStatus,
      CachedPowerStatus |-> servers[s].CachedPowerStatus,
      Ports             |-> servers[s].Ports,
      PortChannels      |-> servers[s].PortChannels ]

\* Engine.servers
ServersOf == [s \in ServerIds |-> ShallowCopyOfServer(s)]

\* Engine.ListServers
ListServers(c) ==
    /\ rLock(c)
    /\ Enter(c, [op |-> "ListServers"], "ret",
             Value([kind |-> "Servers", Count |-> Cardinality(DOMAIN servers),
                    Servers |-> ServersOf]))
    /\ UNCHANGED <<servers, GeneratedID, now, tasks, nextTask>>

\* return s.PowerStatus: the pointer held by the store, no copy is made.
PowerStatusPointer(s) ==
    [ kind   |-> "PowerStatus",
      server |-> s,
      ref    |-> servers[s].PowerStatus.ref,
      Status |-> servers[s].PowerStatus.Status ]

\* Engine.ReadServerPowerStatus
ReadServerPowerStatus(c, serverId) ==
    /\ rLock(c)
    /\ LET o == [op |-> "ReadServerPowerStatus", serverId |-> serverId]
           s == getServerById(serverId)
       IN  IF s # None
           THEN Enter(c, o, "ret", Value(PowerStatusPointer(s[1])))
           ELSE Enter(c, o, "ret", NewError("NotFound", "server"))
    /\ UNCHANGED <<servers, GeneratedID, now, tasks, nextTask>>

\* Engine.ListOSImages: a deep copy of s.OSImages.
ListOSImages(c, serverId) ==
    /\ rLock(c)
    /\ LET o == [op |-> "ListOSImages", serverId |-> serverId]
           s == getServerById(serverId)
       IN  IF s # None
           THEN Enter(c, o, "ret", Value([kind |-> "OsImages", images |-> OSImages(s[1])]))
           ELSE Enter(c, o, "ret", NewError("NotFound", "server"))
    /\ UNCHANGED <<servers, GeneratedID, now, tasks, nextTask>>

\* return s.RaidStatus: the pointer held by the store, no copy is made.
RaidStatusPointer(s) ==
    [ kind          |-> "RaidStatus",
      server        |-> s,
      ref           |-> servers[s].RaidStatus.ref,
      OverallStatus |-> servers[s].RaidStatus.OverallStatus ]

\* Engine.ReadRAIDStatus
ReadRAIDStatus(c, serverId) ==
    /\ rLock(c)
    /\ LET o == [op |-> "ReadRAIDStatus", serverId |-> serverId]
           s == getServerById(serverId)
       IN  IF s # None
           THEN Enter(c, o, "ret", Value(RaidStatusPointer(s[1])))
           ELSE Enter(c, o, "ret", NewError("NotFound", "server"))
    /\ UNCHANGED <<servers, GeneratedID, now, tasks, nextTask>>

\* Engine.ReadServerTrafficByPort: the fixed response, stamped with time.Now()
\* and one minute (one tick of the clock) before it. The port is not looked up.
TrafficGraphData ==
    << [Timestamp |-> now, Value |-> 1], [Timestamp |-> now - 1, Value |-> 2] >>

ReadServerTrafficByPort(c, serverId, portId) ==
    /\ rLock(c)
    /\ LET o == [op |-> "ReadServerTrafficByPort", serverId |-> serverId, portId |-> portId]
           s == getServerById(serverId)
       IN  IF s # None
           THEN Enter(c, o, "ret", Value([kind |-> "TrafficGraph",
                                          Receive |-> TrafficGraphData,
                                          Transmit |-> TrafficGraphData]))
           ELSE Enter(c, o, "ret", NewError("NotFound", "server"))
    /\ UNCHANGED <<servers, GeneratedID, now, tasks, nextTask>>

\* The caller assigns to the Status field of the value it was handed. A value
\* that is a pointer into the store changes the object the store still holds.
CallerSetsStatus(c, v) ==
    /\ pc[c] = "idle"
    /\ held[c].kind \in {"Server", "PowerStatus"}
    /\ IF held[c].kind = "PowerStatus"
       THEN /\ held[c].Status # v
            /\ held' = [d \in Clients |->
                          IF /\ held[d].kind = "PowerStatus"
                             /\ held[d].server = held[c].server
                             /\ held[d].ref = held[c].ref
                          THEN [held[d] EXCEPT !.Status = v] ELSE held[d]]
            /\ servers' = [servers EXCEPT ![held[c].server].PowerStatus =
                              IF @.ref = held[c].ref THEN [@ EXCEPT !.Status = v] ELSE @]
       ELSE /\ held[c].CachedPowerStatus.Status # v
            /\ held' = [held EXCEPT ![c].CachedPowerStatus.Status = v]
            /\ UNCHANGED servers
    /\ UNCHANGED <<GeneratedID, now, mu, tasks, nextTask, pc, call, result, calls>>

\* ---------------------------------------------------- ports and channels

\* Server.getPortById: the position in s.Server.Ports of the first port with
\* that identifier, 0 if there is none. The operation works on that element of
\* the stored list, not on a copy.
getPortById(s, portId) ==
    LET I == {i \in 1..Len(servers[s].Ports) : servers[s].Ports[i].PortId = portId}
    IN  IF I = {} THEN 0 ELSE CHOOSE i \in I : \A j \in I : i <= j

\* Server.getPortChannelById: likewise in s.Server.PortChannels.
getPortChannelById(s, portChannelId) ==
    LET I == {i \in 1..Len(servers[s].PortChannels) :
                 servers[s].PortChannels[i].PortChannelId = portChannelId}
    IN  IF I = {} THEN 0 ELSE CHOOSE i \in I : \A j \in I : i <= j

\* Server.updatePort(port): the stored port with port's identifier becomes port.
updatePort(ports, port) ==
    [i \in 1..Len(ports) |-> IF ports[i].PortId = port.PortId THEN port ELSE ports[i]]

\* Server.updatePortChannel(portChannel): likewise.
updatePortChannel(channels, portChannel) ==
    [i \in 1..Len(channels) |->
        IF channels[i].PortChannelId = portChannel.PortChannelId
        THEN portChannel ELSE channels[i]]

\* The value handed back for a port or a port channel of server s.
PortValue(s, port) == [kind |-> "InterfacePort", server |-> s, port |-> port]
PortChannelValue(s, ch) == [kind |-> "PortChannel", server |-> s, portChannel |-> ch]

\* A variant of the checks that lets any list through for single.
InvalidPortNicknames_singleUnchecked(bondingType, portNicknames) ==
    /\ bondingType \in {"lacp", "static"}
    /\ portNicknames # None /\ Len(portNicknames[1]) # 1

\* Engine.ServerConfigureBonding: the checks of len(*params.PortNicknames).
InvalidPortNicknames(bondingType, portNicknames) ==
    \/ /\ bondingType \in {"lacp", "static"}
       /\ portNicknames # None /\ Len(portNicknames[1]) # 1
    \/ /\ bondingType = "single"
       /\ portNicknames # None /\ Len(portNicknames[1]) # 2

\* A variant of the switch whose other bonding types make one port, as lacp does.
BondingPortNames_otherAsLacp(bondingType, linkSpeedType, portNicknames) ==
    CASE bondingType = "single" ->
            IF portNicknames # None THEN portNicknames[1]
            ELSE <<linkSpeedType \o " 1", linkSpeedType \o " 2">>
      [] OTHER -> <<linkSpeedType>>

\* Engine.ServerConfigureBonding: the nicknames of the ports the switch creates.
BondingPortNames(bondingType, linkSpeedType, portNicknames) ==
    CASE bondingType \in {"lacp", "static"} ->
            << IF portNicknames # None /\ portNicknames[1][1] # ""
               THEN portNicknames[1][1] ELSE linkSpeedType >>
      [] bondingType = "single" ->
            IF portNicknames # None THEN portNicknames[1]
            ELSE <<linkSpeedType \o " 1", linkSpeedType \o " 2">>
      [] OTHER -> <<>>

\* engine.nextId(), the j-th call from the current state: the counter
\* engine.GeneratedID is incremented and its new value is the identifier.
nextId(j) == GeneratedID + j

\* A variant in which every port of one call gets the same new identifier.
BondingPorts_oneId(names, portChannelId) ==
    [j \in 1..Len(names) |-> NewPort(nextId(1), names[j], portChannelId)]

\* Engine.ServerConfigureBonding: the ports, each with PortId: engine.nextId().
BondingPorts(names, portChannelId) ==
    [j \in 1..Len(names) |-> NewPort(nextId(j), names[j], portChannelId)]

\* Engine.ServerConfigureBonding: defer engine.lock()()
ServerConfigureBondingLock(c) == lock(ClientHolder(c))

\* Engine.ServerConfigureBonding up to s.Server.Ports = ports.
ServerConfigureBonding(c, serverId, portChannelId, bondingType, portNicknames) ==
    /\ ServerConfigureBondingLock(c)
    /\ LET o == [op |-> "ServerConfigureBonding", serverId |-> serverId,
                 portChannelId |-> portChannelId, bondingType |-> bondingType,
                 portNicknames |-> portNicknames, portChannel |-> 0, portIds |-> <<>>]
           s == getServerById(serverId)
       IN  IF s = None
           THEN /\ Enter(c, o, "ret", NewError("NotFound", "server"))
                /\ UNCHANGED <<servers, GeneratedID>>
           ELSE LET k == getPortChannelById(s[1], portChannelId) IN
                IF k = 0
                THEN /\ Enter(c, o, "ret", NewError("NotFound", "port-channel"))
                     /\ UNCHANGED <<servers, GeneratedID>>
                ELSE IF InvalidPortNicknames(bondingType, portNicknames)
                THEN /\ Enter(c, o, "ret", NewErrorf("InvalidRequest", "port-channel",
                                                     "invalid PortNicknames"))
                     /\ UNCHANGED <<servers, GeneratedID>>
                ELSE LET portChannel == servers[s[1]].PortChannels[k]
                         names == BondingPortNames(bondingType, portChannel.LinkSpeedType,
                                                   portNicknames)
                         ports == BondingPorts(names, portChannel.PortChannelId)
                     IN  /\ GeneratedID' = GeneratedID + Len(names)
                         /\ servers' = [servers EXCEPT ![s[1]].Ports = ports]
                         /\ Enter(c, [o EXCEPT !.portChannel = k,
                                               !.portIds = [j \in 1..Len(ports) |->
                                                               ports[j].PortId]],
                                  "mid", NoResult)
    /\ UNCHANGED <<now, tasks, nextTask>>

\* Engine.ServerConfigureBonding from portChannel.Ports = portIds to the return.
ServerConfigureBondingUpdate(c) ==
    /\ pc[c] = "mid" /\ call[c].op = "ServerConfigureBonding"
    /\ LET s == call[c].serverId
           portChannel == [servers[s].PortChannels[call[c].portChannel]
                              EXCEPT !.Ports = call[c].portIds]
       IN  /\ servers' = [servers EXCEPT ![s].PortChannels = updatePortChannel(@, portChannel)]
           /\ Leave(c, Value(PortChannelValue(s, portChannel)))
    /\ UNCHANGED <<GeneratedID, now, tasks, nextTask>>

\* Engine.ReadServerPortChannel
ReadServerPortChannel(c, serverId, portChannelId) ==
    /\ rLock(c)
    /\ LET o == [op |-> "ReadServerPortChannel", serverId |-> serverId,
                 portChannelId |-> portChannelId]
           s == getServerById(serverId)
       IN  IF s = None
           THEN Enter(c, o, "ret", NewError("NotFound", "server"))
           ELSE LET k == getPortChannelById(s[1], portChannelId) IN
                IF k = 0
                THEN Enter(c, o, "ret", NewError("NotFound", "port-channel"))
                ELSE Enter(c, o, "ret",
                           Value(PortChannelValue(s[1], servers[s[1]].PortChannels[k])))
    /\ UNCHANGED <<servers, GeneratedID, now, tasks, nextTask>>

\* Engine.ReadServerPort
ReadServerPort(c, serverId, portId) ==
    /\ rLock(c)
    /\ LET o == [op |-> "ReadServerPort", serverId |-> serverId, portId |-> portId]
           s == getServerById(serverId)
       IN  IF s = None
           THEN Enter(c, o, "ret", NewError("NotFound", "server"))
           ELSE LET i == getPortById(s[1], portId) IN
                IF i = 0
                THEN Enter(c, o, "ret", NewError("NotFound", "port"))
                ELSE Enter(c, o, "ret", Value(PortValue(s[1], servers[s[1]].Ports[i])))
    /\ UNCHANGED <<servers, GeneratedID, now, tasks, nextTask>>

\* Engine.UpdateServerPort: defer engine.lock()()
UpdateServerPortLock(c) == lock(ClientHolder(c))

\* Engine.UpdateServerPort
UpdateServerPort(c, serverId, portId, nickname) ==
    /\ UpdateServerPortLock(c)
    /\ LET o == [op |-> "UpdateServerPort", serverId |-> serverId, portId |-> portId,
                 nickname |-> nickname]
           s == getServerById(serverId)
       IN  IF s = None
           THEN /\ Enter(c, o, "ret", NewError("NotFound", "server"))
                /\ UNCHANGED servers
           ELSE LET i == getPortById(s[1], portId) IN
                IF i = 0
                THEN /\ Enter(c, o, "ret", NewError("NotFound", "port"))
                     /\ UNCHANGED servers
                ELSE LET port == [servers[s[1]].Ports[i] EXCEPT !.Nickname = nickname]
                     IN  /\ servers' = [servers EXCEPT ![s[1]].Ports = updatePort(@, port)]
                         /\ Enter(c, o, "ret", Value(PortValue(s[1], port)))
    /\ UNCHANGED <<GeneratedID, now, tasks, nextTask>>

\* Engine.EnableServerPort: defer engine.lock()()
EnableServerPortLock(c) == lock(ClientHolder(c))

\* A variant of EnableServerPort that refuses a server whose lock status is set.
EnableServerPort_unlockedOnly(c, serverId, portId, enable) ==
    /\ EnableServerPortLock(c)
    /\ LET o == [op |-> "EnableServerPort", serverId |-> serverId, portId |-> portId,
                 enable |-> enable]
           s == getServerById(serverId)
       IN  IF s = None
           THEN /\ Enter(c, o, "ret", NewError("NotFound", "server"))
                /\ UNCHANGED servers
           ELSE LET i == getPortById(s[1], portId) IN
                IF i = 0
                THEN /\ Enter(c, o, "ret", NewError("NotFound", "port"))
                     /\ UNCHANGED servers
                ELSE IF servers[s[1]].LockStatus # None
                THEN /\ Enter(c, o, "ret", NewError("Conflict", "server"))
                     /\ UNCHANGED servers
                ELSE LET port == [servers[s[1]].Ports[i] EXCEPT !.Enabled = enable]
                     IN  /\ servers' = [servers EXCEPT ![s[1]].Ports = updatePort(@, port)]
                         /\ Enter(c, o, "ret", Value(PortValue(s[1], port)))
    /\ UNCHANGED <<GeneratedID, now, tasks, nextTask>>

\* Engine.EnableServerPort
EnableServerPort(c, serverId, portId, enable) ==
    /\ EnableServerPortLock(c)
    /\ LET o == [op |-> "EnableServerPort", serverId |-> serverId, portId |-> portId,
                 enable |-> enable]
           s == getServerById(serverId)
       IN  IF s = None
           THEN /\ Enter(c, o, "ret", NewError("NotFound", "server"))
                /\ UNCHANGED servers
           ELSE LET i == getPortById(s[1], portId) IN
                IF i = 0
                THEN /\ Enter(c, o, "ret", NewError("NotFound", "port"))
                     /\ UNCHANGED servers
                ELSE LET port == [servers[s[1]].Ports[i] EXCEPT !.Enabled = enable]
                     IN  /\ servers' = [servers EXCEPT ![s[1]].Ports = updatePort(@, port)]
                         /\ Enter(c, o, "ret", Value(PortValue(s[1], port)))
    /\ UNCHANGED <<GeneratedID, now, tasks, nextTask>>

\* ------------------------------------------------------- network assignment

\* engine.getDedicatedSubnetById
getDedicatedSubnetById(id) ==
    IF id \in DedicatedSubnetIds
    THEN Some([DedicatedSubnetId |-> id, Nickname |-> "subnet " \o id,
               NetworkAddress |-> "192.0.2.0", PrefixLength |-> 28])
    ELSE None

\* engine.getPrivateNetworkById
getPrivateNetworkById(id) ==
    IF id \in PrivateNetworkIds
    THEN Some([PrivateNetworkId |-> id, Nickname |-> "network " \o id])
    ELSE None

\* A variant of the reset that forgets port.PrivateNetworks.
ResetPort_keepsPrivateNetworks(port) ==
    [port EXCEPT !.Internet = None, !.Mode = None,
                 !.GlobalBandwidthMbps = None, !.LocalBandwidthMbps = None]

\* Engine.ServerAssignNetwork, "reset the related fields first".
ResetPort(port) ==
    [port EXCEPT !.Internet = None, !.Mode = None, !.PrivateNetworks = <<>>,
                 !.GlobalBandwidthMbps = None, !.LocalBandwidthMbps = None]

\* Engine.ServerAssignNetwork, the switch on *params.InternetType: what it
\* leaves in internet and port.GlobalBandwidthMbps, or how it leaves the function.
InternetOf(params) ==
    IF params.InternetType = None
    THEN [outcome |-> "ok", Internet |-> None, GlobalBandwidthMbps |-> None]
    ELSE CASE params.InternetType[1] = "common-subnet" ->
                [outcome |-> "ok",
                 Internet |-> Some([NetworkAddress |-> "203.0.113.0", PrefixLength |-> 24,
                                    SubnetType |-> "common-subnet",
                                    DedicatedSubnet |-> None]),
                 GlobalBandwidthMbps |-> Some(100)]
           [] params.InternetType[1] = "dedicated-subnet" ->
                IF params.DedicatedSubnetId = None
                THEN \* *params.DedicatedSubnetId dereferences nil
                     [outcome |-> "panic", Internet |-> None, GlobalBandwidthMbps |-> None]
                ELSE LET subnet == getDedicatedSubnetById(params.DedicatedSubnetId[1]) IN
                     IF subnet = None
                     THEN [outcome |-> "invalid", Internet |-> None,
                           GlobalBandwidthMbps |-> None]
                     ELSE [outcome |-> "ok",
                           Internet |-> Some([NetworkAddress |-> subnet[1].NetworkAddress,
                                              PrefixLength |-> subnet[1].PrefixLength,
                                              SubnetType |-> "dedicated-subnet",
                                              DedicatedSubnet |->
                                                  Some([DedicatedSubnetId |->
                                                            subnet[1].DedicatedSubnetId,
                                                        Nickname |-> subnet[1].Nickname])]),
                           GlobalBandwidthMbps |-> Some(500)]
           [] OTHER -> \* panic(fmt.Errorf("invalid InternetType: ..."))
                [outcome |-> "panic", Internet |-> None, GlobalBandwidthMbps |-> None]

\* Engine.ServerAssignNetwork, the switch on params.Mode.
ModeOf(params, mode) ==
    IF params.Mode \in {"access", "trunk"} THEN Some(params.Mode) ELSE mode

\* Engine.ServerAssignNetwork, the loop over *params.PrivateNetworkIds: the
\* position of the first id that getPrivateNetworkById does not find, 0 if none.
FirstUnknownPrivateNetwork(ids) ==
    LET B == {j \in 1..Len(ids) : getPrivateNetworkById(ids[j]) = None}
    IN  IF B = {} THEN 0 ELSE CHOOSE j \in B : \A k \in B : j <= k

\* The attachments the loop has appended when it has looked at the first n ids.
AttachedPrivateNetworks(ids, n) ==
    [j \in 1..n |-> [Nickname |-> getPrivateNetworkById(ids[j])[1].Nickname,
                     PrivateNetworkId |-> getPrivateNetworkById(ids[j])[1].PrivateNetworkId]]

\* A variant that takes the read lock.
ServerAssignNetworkLock_shared(c) == rLock(c)

\* Engine.ServerAssignNetwork: defer engine.lock()()
ServerAssignNetworkLock(c) == lock(ClientHolder(c))

\* Engine.ServerAssignNetwork up to the reset of the port. The call record
\* keeps the position of the port and, for the statement of the properties
\* only, the port as the call found it (the function keeps no such copy).
ServerAssignNetwork(c, serverId, portId, params) ==
    /\ ServerAssignNetworkLock(c)
    /\ LET o == [op |-> "ServerAssignNetwork", serverId |-> serverId, portId |-> portId,
                 params |-> params, port |-> 0, before |-> NoVal]
           s == getServerById(serverId)
       IN  IF s = None
           THEN /\ Enter(c, o, "ret", NewError("NotFound", "server"))
                /\ UNCHANGED servers
           ELSE LET i == getPortById(s[1], portId) IN
                IF i = 0
                THEN /\ Enter(c, o, "ret", NewError("NotFound", "port"))
                     /\ UNCHANGED servers
                ELSE /\ servers' = [servers EXCEPT ![s[1]].Ports[i] = ResetPort(@)]
                     /\ Enter(c, [o EXCEPT !.port = i, !.before = servers[s[1]].Ports[i]],
                              "mid", NoResult)
    /\ UNCHANGED <<GeneratedID, now, tasks, nextTask>>

\* Engine.ServerAssignNetwork from the switch on the internet type to the return.
ServerAssignNetworkApply(c) ==
    /\ pc[c] = "mid" /\ call[c].op = "ServerAssignNetwork"
    /\ LET s == call[c].serverId
           i == call[c].port
           params == call[c].params
           port == servers[s].Ports[i]
           net == InternetOf(params)
       IN  IF net.outcome = "panic"
           THEN /\ Leave(c, Panic)
                /\ UNCHANGED servers
           ELSE IF net.outcome = "invalid"
           THEN /\ Leave(c, NewErrorf("InvalidRequest", "port",
                                      Sprintf_s_pointer("invalid dedicated subnet id: ",
                                                        params.DedicatedSubnetId)))
                /\ UNCHANGED servers
           ELSE LET p1 == [port EXCEPT !.GlobalBandwidthMbps = net.GlobalBandwidthMbps,
                                       !.Internet = net.Internet,
                                       !.Mode = ModeOf(params, @)]
                IN  IF params.PrivateNetworkIds = None
                    THEN /\ servers' = [servers EXCEPT ![s].Ports = updatePort(@, p1)]
                         /\ Leave(c, Value(PortValue(s, p1)))
                    ELSE LET ids == params.PrivateNetworkIds[1]
                             bad == FirstUnknownPrivateNetwork(ids)
                             n == IF bad = 0 THEN Len(ids) ELSE bad - 1
                             p2 == [p1 EXCEPT !.PrivateNetworks =
                                                  @ \o AttachedPrivateNetworks(ids, n)]
                             p3 == [p2 EXCEPT !.LocalBandwidthMbps = Some(1000)]
                         IN  IF bad # 0
                             THEN /\ servers' = [servers EXCEPT ![s].Ports[i] = p2]
                                  /\ Leave(c, NewErrorf("InvalidRequest", "port",
                                              Sprintf_s("invalid private network id: ",
                                                        ids[bad])))
                             ELSE /\ servers' = [servers EXCEPT ![s].Ports = updatePort(@, p3)]
                                  /\ Leave(c, Value(PortValue(s, p3)))
    /\ UNCHANGED <<GeneratedID, now, tasks, nextTask>>

\* ------------------------------------------------------ the specifications

Next ==
    \/ \E c \in Clients, s \in RequestServerIds, i \in RequestOsImageIds : calls < MaxCalls /\ OSInstall(c, s, i)
    \/ \E c \in Clients, s \in RequestServerIds, o \in PowerOperations : calls < MaxCalls /\ ServerPowerControl(c, s, o)
    \/ \E c \in Clients, s \in RequestServerIds : calls < MaxCalls /\ ReadServer(c, s)
    \/ \E c \in Clients, s \in RequestServerIds : calls < MaxCalls /\ ReadServerPowerStatus(c, s)
    \/ \E c \in Clients : ReturnKept(c)
    \/ \E c \in Clients, v \in {"on", "off"} : CallerSetsStatus(c, v)
    \/ \E t \in tasks : startUpdateAction(t)
    \/ \E t \in tasks : startOSInstallStart(t)
    \/ \E t \in tasks : startOSInstallFinish(t)
    \/ \E t \in tasks : startServerPowerControlPowerStatus(t)
    \/ \E t \in tasks : startServerPowerControlCached(t)

Spec == Init /\ [][Next]_vars

\* The port operations, with the reads that run beside them.
NextPorts ==
    \/ \E c \in Clients, s \in RequestServerIds, k \in RequestPortChannelIds,
          b \in BondingTypes, n \in RequestPortNicknames :
            calls < MaxPortCalls /\ ServerConfigureBonding(c, s, k, b, n)
    \/ \E c \in Clients : ServerConfigureBondingUpdate(c)
    \/ \E c \in Clients, s \in RequestServerIds, i \in 1..(GeneratedID + 1),
          q \in RequestAssignNetworkParameters :
            calls < MaxPortCalls /\ ServerAssignNetwork(c, s, i, q)
    \/ \E c \in Clients : ServerAssignNetworkApply(c)
    \/ \E c \in Clients, s \in RequestServerIds, i \in 1..(GeneratedID + 1),
          n \in RequestNicknames :
            calls < MaxPortCalls /\ UpdateServerPort(c, s, i, n)
    \/ \E c \in Clients, s \in RequestServerIds, i \in 1..(GeneratedID + 1),
          e \in BOOLEAN :
            calls < MaxPortCalls /\ EnableServerPort(c, s, i, e)
    \/ \E c \in Clients, s \in RequestServerIds, i \in 1..(GeneratedID + 1) :
            calls < MaxPortCalls /\ ReadServerPort(c, s, i)
    \/ \E c \in Clients, s \in RequestServerIds, k \in RequestPortChannelIds :
            calls < MaxPortCalls /\ ReadServerPortChannel(c, s, k)
    \/ \E c \in Clients, s \in RequestServerIds : calls < MaxPortCalls /\ ReadServer(c, s)
    \/ \E c \in Clients, s \in RequestServerIds :
            calls < MaxPortCalls /\ ReadServerPowerStatus(c, s)
    \/ \E c \in Clients : calls < MaxPortCalls /\ ListServers(c)
    \/ \E c \in Clients, s \in RequestServerIds : calls < MaxPortCalls /\ ListOSImages(c, s)
    \/ \E c \in Clients, s \in RequestServerIds : calls < MaxPortCalls /\ ReadRAIDStatus(c, s)
    \/ \E c \in Clients, s \in RequestServerIds, i \in 1..(GeneratedID + 1) :
            calls < MaxPortCalls /\ ReadServerTrafficByPort(c, s, i)
    \/ \E c \in Clients, s \in RequestServerIds, o \in PowerOperations :
            calls < MaxPortCalls /\ ServerPowerControl(c, s, o)
    \/ \E c \in Clients, s \in RequestServerIds, i \in RequestOsImageIds :
            calls < MaxPortCalls /\ OSInstall(c, s, i)
    \/ \E t \in tasks : startUpdateAction(t)
    \/ \E t \in tasks : startOSInstallStart(t)
    \/ \E t \in tasks : startOSInstallFinish(t)
    \/ \E t \in tasks : startServerPowerControlPowerStatus(t)
    \/ \E t \in tasks : startServerPowerControlCached(t)
    \/ \E c \in Clients : Return(c)

SpecPorts == Init /\ [][NextPorts]_vars

\* Fairness: the Go scheduler runs every goroutine that can run, so a step of
\* a call in progress or of a background action that stays possible is taken.
Progress ==
    \/ \E c \in Clients : ReturnKept(c)
    \/ \E t \in tasks : startUpdateAction(t) \/ startOSInstallStart(t) \/ startOSInstallFinish(t)
                          \/ startServerPowerControlPowerStatus(t)
                          \/ startServerPowerControlCached(t)

FairSpec == Spec /\ WF_vars(Progress)

\* ------------------------------------------------------------- the claims

LockStatusOf(s) == servers[s].LockStatus

\* An accepted OS install of server s whose background steps have not all run.
InstallPending(s) ==
    \E t \in tasks : t.server = s /\ t.kind \in {"osStart", "osFinish"}

\* C1: when OSInstall is about to return success, the server's lock status is
\* already "installing OS".
C1_LockedWhenOSInstallReturns ==
    \A c \in Clients :
        (pc[c] = "ret" /\ call[c].op = "OSInstall" /\ result[c] = OK)
            => LockStatusOf(call[c].serverId) = Some(ServerLockStatusOsInstall)

\* C2: under fair scheduling every accepted OS install is followed by a state
\* in which no install of that server is unfinished and its lock status is
\* absent, and while no accepted install is unfinished the lock status is absent.
C2_InstallCycleReturnsToIdle ==
    /\ \A s \in ServerIds :
          InstallPending(s) ~> (~InstallPending(s) /\ LockStatusOf(s) = None)
    /\ [](\A s \in ServerIds : ~InstallPending(s) => LockStatusOf(s) = None)

\* Two accepted installs of one server are interleaved: the second has not
\* started while the first waits to be finished, the lock status being set.
C2_Witness ==
    \E s \in ServerIds : \E t1, t2 \in tasks :
        /\ t1.server = s /\ t1.kind = "osFinish"
        /\ t2.server = s /\ t2.kind = "osStart"
        /\ LockStatusOf(s) # None

\* C3: OSInstall or ServerPowerControl on an existing server whose lock status
\* is present returns Conflict, changes no server record and launches no
\* background action.
C3_ConflictChangesNothing ==
    [][\A c \in Clients :
          ( /\ pc[c] = "idle" /\ pc'[c] = "ret"
            /\ call'[c].op \in {"OSInstall", "ServerPowerControl"}
            /\ call'[c].serverId \in ServerIds
            /\ LockStatusOf(call'[c].serverId) # None )
          => ( /\ result'[c].err = "Conflict"
               /\ servers' = servers
               /\ tasks' = tasks )]_vars

\* Both operations have been refused on a locked server.
C3_Witness ==
    \E c, d \in Clients :
        /\ pc[c] = "ret" /\ call[c].op = "OSInstall" /\ result[c].err = "Conflict"
        /\ pc[d] = "ret" /\ call[d].op = "ServerPowerControl" /\ result[d].err = "Conflict"

C6_ReturnedValuesAreIsolated ==
    [][\A c \in Clients :
          ( /\ pc[c] = "idle" /\ pc'[c] = "idle"
            /\ held[c] # NoVal /\ held'[c] # NoVal
            /\ held'[c] # held[c] )
          => servers' = servers]_vars

\* C10: an accepted ServerPowerControl launches an action that settles the
\* power status and the cached power status to "on" for "on"/"reset" and to
\* "off" for "soft"/"off"; the stored timestamp never decreases and the
\* settling step makes it strictly later; the settling step leaves the two
\* statuses equal.
C10_PowerControlSettles ==
    [][ /\ \A c \in Clients :
             ( /\ pc[c] = "idle" /\ pc'[c] = "ret"
               /\ call'[c].op = "ServerPowerControl" /\ result'[c] = OK )
             => \E t \in tasks' \ tasks :
                   /\ t.kind = "power" /\ t.server = call'[c].serverId
                   /\ call'[c].operation \in {"on", "reset"} => t.status = "on"
                   /\ call'[c].operation \in {"soft", "off"} => t.status = "off"
        /\ \A s \in ServerIds :
             servers'[s].CachedPowerStatus.Stored >= servers[s].CachedPowerStatus.Stored
        /\ \A t \in tasks :
             (t.kind = "power" /\ t.pc = "mid" /\ t \notin tasks')
             => /\ servers'[t.server].PowerStatus.Status = t.status
                /\ servers'[t.server].CachedPowerStatus.Status = t.status
                /\ servers'[t.server].CachedPowerStatus.Stored
                      > servers[t.server].CachedPowerStatus.Stored
                /\ servers'[t.server].PowerStatus.Status
                      = servers'[t.server].CachedPowerStatus.Status ]_vars

\* A "soft" or "off" and then an "on" or "reset" have settled server s1: both
\* statuses are "on", written by the second action at a later time.
C10_Witness ==
    /\ servers["s1"].PowerStatus.Status = "on"
    /\ servers["s1"].PowerStatus.ref # 0
    /\ servers["s1"].CachedPowerStatus.Status = "on"
    /\ servers["s1"].CachedPowerStatus.ref = servers["s1"].PowerStatus.ref
    /\ servers["s1"].CachedPowerStatus.Stored > 1

\* The operations that only read, and what each returns from the store as it is.
ReadOps ==
    {"ReadServer", "ReadServerPort", "ReadServerPortChannel", "ReadServerPowerStatus",
     "ListServers"}

ViewOf(o) ==
    CASE o.op = "ReadServer" -> CopyOfServer(o.serverId)
      [] o.op = "ReadServerPowerStatus" -> PowerStatusPointer(o.serverId)
      [] o.op = "ListServers" ->
            [kind |-> "Servers", Count |-> Cardinality(DOMAIN servers), Servers |-> ServersOf]
      [] o.op = "ReadServerPort" ->
            PortValue(o.serverId, servers[o.serverId].Ports[getPortById(o.serverId, o.portId)])
      [] o.op = "ReadServerPortChannel" ->
            PortChannelValue(o.serverId,
                servers[o.serverId].PortChannels[getPortChannelById(o.serverId,
                                                                    o.portChannelId)])

\* A mutation is between its first and its last write of the store.
MidMutation ==
    \/ \E c \in Clients : pc[c] = "mid"
    \/ \E t \in tasks : t.pc = "mid"

BondingReturned(c) ==
    /\ pc[c] = "ret" /\ call[c].op = "ServerConfigureBonding"
    /\ call[c].serverId \in ServerIds
    /\ getPortChannelById(call[c].serverId, call[c].portChannelId) # 0

\* The call succeeded and left the server with exactly the ports named names:
\* each enabled, on the channel, with the last identifiers issued, which the
\* channel lists in creation order.
BondingSucceeded(c, names) ==
    LET s == call[c].serverId
        ports == servers[s].Ports
        ch == servers[s].PortChannels[getPortChannelById(s, call[c].portChannelId)]
    IN  /\ result[c].err = ""
        /\ Len(ports) = Len(names)
        /\ \A j \in 1..Len(ports) :
              /\ ports[j].Enabled
              /\ ports[j].Nickname = names[j]
              /\ ports[j].PortChannelId = call[c].portChannelId
              /\ ports[j].PortId = GeneratedID - Len(ports) + j
        /\ ch.Ports = [j \in 1..Len(ports) |-> ports[j].PortId]
        /\ result[c].val.portChannel = ch

\* The same, whatever the one port is called.
BondingSucceededWithOnePort(c) ==
    /\ Len(servers[call[c].serverId].Ports) = 1
    /\ BondingSucceeded(c, <<servers[call[c].serverId].Ports[1].Nickname>>)

BondingRefused(c) ==
    /\ result[c].err = "InvalidRequest"

LinkSpeedTypeOf(c) ==
    servers[call[c].serverId].PortChannels[
        getPortChannelById(call[c].serverId, call[c].portChannelId)].LinkSpeedType

DefaultSingleNames(c) == <<LinkSpeedTypeOf(c) \o " 1", LinkSpeedTypeOf(c) \o " 2">>

\* The number of nicknames of a request: none when the list is absent.
NicknameCount(n) == IF n = None THEN 0 ELSE Len(n[1])

\* C7 as stated: lacp/static with zero or one nickname succeeds with one port,
\* any other number is refused; single with no nicknames or two succeeds with
\* two ports so named, any other number is refused.
C7_BondingByNicknameCount ==
    \A c \in Clients :
        BondingReturned(c) =>
            LET b == call[c].bondingType
                n == call[c].portNicknames
            IN  /\ b \in {"lacp", "static"} =>
                     IF NicknameCount(n) \in {0, 1}
                     THEN BondingSucceededWithOnePort(c) ELSE BondingRefused(c)
                /\ b = "single" =>
                     IF NicknameCount(n) \in {0, 2}
                     THEN BondingSucceeded(c, IF NicknameCount(n) = 2 THEN n[1]
                                              ELSE DefaultSingleNames(c))
                     ELSE BondingRefused(c)

\* C7 amended: lacp/static with no nickname list or a list of exactly one
\* succeeds with one port, a list of any other length (the empty list too) is
\* refused; single with no list or a list of exactly two succeeds with two
\* ports so named, a list of any other length (the empty list too) is refused.
\* The identifiers of the new ports are issued by the call.
C7_BondingByNicknameList ==
    /\ [](\A c \in Clients :
            BondingReturned(c) =>
                LET b == call[c].bondingType
                    n == call[c].portNicknames
                IN  /\ b \in {"lacp", "static"} =>
                         IF n = None \/ NicknameCount(n) = 1
                         THEN BondingSucceededWithOnePort(c) ELSE BondingRefused(c)
                    /\ b = "single" =>
                         IF n = None \/ NicknameCount(n) = 2
                         THEN BondingSucceeded(c, IF n = None THEN DefaultSingleNames(c)
                                                  ELSE n[1])
                         ELSE BondingRefused(c))
    /\ [][\A c \in Clients :
            (pc[c] = "idle" /\ pc'[c] = "mid" /\ call'[c].op = "ServerConfigureBonding")
                => \A j \in 1..Len(servers'[call'[c].serverId].Ports) :
                      /\ servers'[call'[c].serverId].Ports[j].PortId > GeneratedID
                      /\ servers'[call'[c].serverId].Ports[j].PortId <= GeneratedID']_vars

\* A single bonding with two nicknames has made ports "a" and "b".
C7_Witness ==
    \E c \in Clients :
        /\ BondingReturned(c) /\ result[c].err = ""
        /\ call[c].bondingType = "single" /\ call[c].portNicknames = Some(<<"a", "b">>)
        /\ Len(servers[call[c].serverId].Ports) = 2
        /\ servers[call[c].serverId].Ports[2].Nickname = "b"

\* ServerAssignNetwork has returned to client c for a port that exists.
AssignReturned(c) ==
    /\ pc[c] = "ret" /\ call[c].op = "ServerAssignNetwork"
    /\ call[c].port # 0

AssignedPort(c) == servers[call[c].serverId].Ports[call[c].port]

\* The five network fields of a port.
NetworkFields(port) ==
    [Internet |-> port.Internet, Mode |-> port.Mode,
     PrivateNetworks |-> port.PrivateNetworks,
     GlobalBandwidthMbps |-> port.GlobalBandwidthMbps,
     LocalBandwidthMbps |-> port.LocalBandwidthMbps]

\* The five network fields a request asks for, from the request and the
\* catalogs alone.
RequestedNetwork(q) ==
    [Internet |-> InternetOf(q).Internet,
     Mode |-> IF q.Mode \in {"access", "trunk"} THEN Some(q.Mode) ELSE None,
     PrivateNetworks |->
        IF q.PrivateNetworkIds = None THEN <<>>
        ELSE [j \in 1..Len(q.PrivateNetworkIds[1]) |->
                 [Nickname |-> "network " \o q.PrivateNetworkIds[1][j],
                  PrivateNetworkId |-> q.PrivateNetworkIds[1][j]]],
     GlobalBandwidthMbps |->
        IF q.InternetType = None THEN None
        ELSE IF q.InternetType = Some("common-subnet") THEN Some(100) ELSE Some(500),
     LocalBandwidthMbps |-> IF q.PrivateNetworkIds = None THEN None ELSE Some(1000)]

\* C8: after a successful ServerAssignNetwork the five network fields of the
\* port are what the request says, whatever the port was before: global
\* bandwidth 100 for common-subnet, 500 for dedicated-subnet, none without an
\* internet type; one attachment per listed private network id and local
\* bandwidth 1000 with a list, neither without one. So the same request
\* leaves the same five fields however often it is applied.
C8_AssignedNetworkIsTheRequest ==
    \A c \in Clients :
        (AssignReturned(c) /\ result[c].err = "") =>
            LET q == call[c].params
                port == AssignedPort(c)
            IN  /\ result[c].val.port = port
                /\ NetworkFields(port) = RequestedNetwork(q)
                /\ q.InternetType = None =>
                      port.Internet = None /\ port.GlobalBandwidthMbps = None
                /\ q.InternetType = Some("common-subnet") =>
                      /\ port.Internet # None
                      /\ port.Internet[1].SubnetType = "common-subnet"
                      /\ port.Internet[1].DedicatedSubnet = None
                      /\ port.GlobalBandwidthMbps = Some(100)
                /\ q.InternetType = Some("dedicated-subnet") =>
                      /\ port.Internet # None
                      /\ port.Internet[1].SubnetType = "dedicated-subnet"
                      /\ port.Internet[1].DedicatedSubnet # None
                      /\ Some(port.Internet[1].DedicatedSubnet[1].DedicatedSubnetId)
                            = q.DedicatedSubnetId
                      /\ port.GlobalBandwidthMbps = Some(500)
                /\ q.InternetType \in {None, Some("common-subnet"), Some("dedicated-subnet")}
                /\ port.Mode = (IF q.Mode \in {"access", "trunk"} THEN Some(q.Mode) ELSE None)
                /\ q.PrivateNetworkIds = None =>
                      port.PrivateNetworks = <<>> /\ port.LocalBandwidthMbps = None
                /\ q.PrivateNetworkIds # None =>
                      /\ Len(port.PrivateNetworks) = Len(q.PrivateNetworkIds[1])
                      /\ \A j \in 1..Len(port.PrivateNetworks) :
                            port.PrivateNetworks[j].PrivateNetworkId = q.PrivateNetworkIds[1][j]
                      /\ port.LocalBandwidthMbps = Some(1000)

\* A port that had an internet attachment and private networks has been given
\* a list of one private network and nothing else.
C8_Witness ==
    \E c \in Clients :
        /\ AssignReturned(c) /\ result[c].err = ""
        /\ call[c].before.Internet # None
        /\ Len(call[c].before.PrivateNetworks) >= 1
        /\ call[c].params.InternetType = None
        /\ call[c].params.PrivateNetworkIds = Some(<<"pn1">>)
        /\ Len(AssignedPort(c).PrivateNetworks) = 1
        /\ AssignedPort(c).Internet = None

\* The request names a dedicated subnet that is not in the catalog.
UnknownDedicatedSubnet(q) ==
    /\ q.InternetType = Some("dedicated-subnet")
    /\ q.DedicatedSubnetId # None
    /\ getDedicatedSubnetById(q.DedicatedSubnetId[1]) = None

\* The stored port after such a request: its five network fields are absent
\* and the rest is as the call found it.
ResetAndOtherwiseUntouched(c) ==
    LET port == AssignedPort(c)
        before == call[c].before
    IN  /\ port.Internet = None /\ port.Mode = None /\ port.PrivateNetworks = <<>>
        /\ port.GlobalBandwidthMbps = None /\ port.LocalBandwidthMbps = None
        /\ port.PortId = before.PortId /\ port.Nickname = before.Nickname
        /\ port.Enabled = before.Enabled /\ port.PortChannelId = before.PortChannelId

\* C9: ServerAssignNetwork with a dedicated subnet id that is not in the catalog
\* returns InvalidRequest with a message that names the id, and leaves the
\* stored port with its five network fields absent and the rest unchanged.
C9_UnknownSubnetNamedAndPortReset ==
    \A c \in Clients :
        (AssignReturned(c) /\ UnknownDedicatedSubnet(call[c].params)) =>
            /\ result[c].err = "InvalidRequest"
            /\ result[c].msg = "invalid dedicated subnet id: "
                                  \o call[c].params.DedicatedSubnetId[1]
            /\ ResetAndOtherwiseUntouched(c)

\* C9, the part about the stored port alone.
C9_PortResetAfterUnknownSubnet ==
    \A c \in Clients :
        (AssignReturned(c) /\ UnknownDedicatedSubnet(call[c].params)) =>
            /\ result[c].err = "InvalidRequest"
            /\ ResetAndOtherwiseUntouched(c)

\* Such a request has been refused on a port that had a network assigned.
C9_PortResetWitness ==
    \E c \in Clients :
        /\ AssignReturned(c) /\ UnknownDedicatedSubnet(call[c].params)
        /\ call[c].before.Internet # None
        /\ call[c].before.PrivateNetworks # <<>>

\* The identifiers of the ports of server s.
PortIdsOf(s) == {servers[s].Ports[j].PortId : j \in 1..Len(servers[s].Ports)}

\* C11: no two ports of one server share an identifier, and the allocator only
\* counts upwards: every port a step adds carries an identifier above every
\* identifier issued before that step and not above the last one issued by it.
C11_PortIdsUniqueAndIncreasing ==
    /\ [](\A s \in ServerIds : Cardinality(PortIdsOf(s)) = Len(servers[s].Ports))
    /\ [][ /\ GeneratedID' >= GeneratedID
           /\ \A s \in ServerIds :
                \A j \in 1..Len(servers'[s].Ports) :
                    LET id == servers'[s].Ports[j].PortId IN
                    \/ id \in 1..GeneratedID
                    \/ /\ id \in (GeneratedID + 1)..GeneratedID'
                       /\ \A r \in ServerIds : id \notin PortIdsOf(r) ]_vars

\* Two ServerConfigureBonding calls have run, the second one making two ports.
C11_Witness ==
    /\ GeneratedID = 4
    /\ Len(servers["s1"].Ports) = 2
    /\ PortIdsOf("s1") = {3, 4}

\* The operations that take a server identifier.
ServerOps ==
    {"ReadServer", "ListOSImages", "OSInstall", "ReadServerPortChannel",
     "ServerConfigureBonding", "ReadServerPort", "UpdateServerPort",
     "ServerAssignNetwork", "EnableServerPort", "ReadServerTrafficByPort",
     "ServerPowerControl", "ReadServerPowerStatus", "ReadRAIDStatus"}

\* Client c enters an operation in this step.
Entering(c) == pc[c] = "idle" /\ pc'[c] # "idle"

\* The step changed no server record, issued no identifier and launched no
\* background action.
NothingChanged == servers' = servers /\ GeneratedID' = GeneratedID /\ tasks' = tasks

\* C12: an operation called with a server identifier that matches no record
\* returns NotFound for the server, and OSInstall for an existing unlocked
\* server with an image that is not among its installable images returns
\* NotFound for the image; neither changes a record or launches an action.
C12_NotFoundChangesNothing ==
    [][\A c \in Clients :
          /\ ( /\ Entering(c) /\ call'[c].op \in ServerOps
               /\ call'[c].serverId \notin ServerIds )
             => ( /\ pc'[c] = "ret"
                  /\ result'[c] = NewError("NotFound", "server")
                  /\ NothingChanged )
          /\ ( /\ Entering(c) /\ call'[c].op = "OSInstall"
               /\ call'[c].serverId \in ServerIds
               /\ LockStatusOf(call'[c].serverId) = None
               /\ call'[c].osImageId \notin OSImages(call'[c].serverId) )
             => ( /\ pc'[c] = "ret"
                  /\ result'[c] = NewError("NotFound", "os-image")
                  /\ NothingChanged )]_vars

\* One caller is refused for the image of an existing server while the other
\* is refused for a server that does not exist.
C12_Witness ==
    \E c, d \in Clients :
        /\ pc[c] = "ret" /\ call[c].op = "OSInstall" /\ call[c].serverId = "s1"
        /\ result[c] = NewError("NotFound", "os-image")
        /\ pc[d] = "ret" /\ call[d].op = "ServerPowerControl" /\ call[d].serverId = "s9"
        /\ result[d] = NewError("NotFound", "server")

\* The accepted OS installs of server s that still have a background step to run.
PendingInstalls(s) == {t \in tasks : t.server = s /\ t.kind \in {"osStart", "osFinish"}}

\* C13: at no time does a server have two accepted OS installs that both still
\* have a background step to run.
C13_OneInstallAtATime ==
    \A s \in ServerIds : Cardinality(PendingInstalls(s)) <= 1

\* A power action launched for an operation that matches no case of the switch.
UnknownOperationAction(t) == t.kind = "power" /\ t.status \notin {"on", "off"}

\* C14: the background action of a ServerPowerControl whose operation is none
\* of "on", "reset", "soft" and "off" changes neither the power status nor the
\* cached power status (status and stored timestamp) of the server.
C14_UnknownOperationChangesNothing ==
    [][\A t \in tasks :
          (UnknownOperationAction(t) /\ t \notin tasks')
          => /\ servers'[t.server].PowerStatus.Status = servers[t.server].PowerStatus.Status
             /\ servers'[t.server].CachedPowerStatus.Status
                   = servers[t.server].CachedPowerStatus.Status
             /\ servers'[t.server].CachedPowerStatus.Stored
                   = servers[t.server].CachedPowerStatus.Stored]_vars

\* C15: ServerConfigureBonding with a bonding type other than lacp, static and
\* single succeeds whatever nicknames are supplied, issues no identifier, and
\* leaves the port list of the server and the port list of the channel empty.
C15_OtherBondingTypeMakesNoPorts ==
    /\ [](\A c \in Clients :
            (BondingReturned(c) /\ call[c].bondingType \notin {"lacp", "static", "single"})
            => LET s == call[c].serverId
                   ch == servers[s].PortChannels[getPortChannelById(s, call[c].portChannelId)]
               IN  /\ result[c].err = ""
                   /\ result[c].val = PortChannelValue(s, ch)
                   /\ servers[s].Ports = <<>>
                   /\ ch.Ports = <<>>)
    /\ [][\A c \in Clients :
            ( /\ call'[c].op = "ServerConfigureBonding"
              /\ call'[c].bondingType \notin {"lacp", "static", "single"}
              /\ (Entering(c) \/ pc[c] = "mid") )
            => GeneratedID' = GeneratedID]_vars

\* Such a call, with three nicknames, has emptied the port list of s1 and the
\* port list of the channel that held the seeded port.
C15_Witness ==
    \E c \in Clients :
        /\ BondingReturned(c) /\ call[c].bondingType = "mlag"
        /\ call[c].portNicknames = Some(<<"a", "b", "c">>)
        /\ call[c].portChannelId = 1
        /\ result[c].err = ""
        /\ servers["s1"].Ports = <<>>
        /\ servers["s1"].PortChannels[1].Ports = <<>>

\* Client c enters operation op in this step, for a server and a port that exist.
EnteringForPort(c, op) ==
    /\ Entering(c) /\ call'[c].op = op
    /\ call'[c].serverId \in ServerIds
    /\ getPortById(call'[c].serverId, call'[c].portId) # 0

\* C16: EnableServerPort on an existing port sets its enabled flag to the
\* requested value and UpdateServerPort sets its nickname to the requested
\* value, whatever the state of the port and the server; nothing else in the
\* store changes, the updated port is returned, and a ReadServerPort returns
\* the port as stored.
C16_PortUpdatesTouchOneField ==
    /\ [][\A c \in Clients :
            /\ EnteringForPort(c, "EnableServerPort")
               => LET s == call'[c].serverId
                      i == getPortById(s, call'[c].portId)
                  IN  /\ pc'[c] = "ret" /\ result'[c].err = ""
                      /\ servers' = [servers EXCEPT ![s].Ports[i].Enabled = call'[c].enable]
                      /\ result'[c].val = PortValue(s, servers'[s].Ports[i])
                      /\ GeneratedID' = GeneratedID /\ tasks' = tasks
            /\ EnteringForPort(c, "UpdateServerPort")
               => LET s == call'[c].serverId
                      i == getPortById(s, call'[c].portId)
                  IN  /\ pc'[c] = "ret" /\ result'[c].err = ""
                      /\ servers' = [servers EXCEPT ![s].Ports[i].Nickname = call'[c].nickname]
                      /\ result'[c].val = PortValue(s, servers'[s].Ports[i])
                      /\ GeneratedID' = GeneratedID /\ tasks' = tasks]_vars
    /\ [](\A c \in Clients :
            (pc[c] = "ret" /\ call[c].op = "ReadServerPort" /\ result[c].err = "")
            => result[c].val = PortValue(call[c].serverId,
                                 servers[call[c].serverId].Ports[
                                     getPortById(call[c].serverId, call[c].portId)]))

\* A port of a server whose lock status is set has been disabled.
C16_Witness ==
    \E c \in Clients :
        /\ pc[c] = "ret" /\ call[c].op = "EnableServerPort" /\ result[c].err = ""
        /\ call[c].enable = FALSE
        /\ LockStatusOf(call[c].serverId) # None
        /\ ~result[c].val.port.Enabled

\* A port that UpdateServerPort renamed is being read.
C16_RenamedPortRead ==
    \E c \in Clients :
        /\ pc[c] = "ret" /\ call[c].op = "ReadServerPort" /\ result[c].err = ""
        /\ result[c].val.port.Nickname = "b"

\* The identifiers port channel ch of a server lists.
ListedBy(ch) == {ch.Ports[j] : j \in 1..Len(ch.Ports)}

\* No ServerConfigureBonding is between its two writes.
NoBondingInProgress ==
    \A c \in Clients : ~(pc[c] = "mid" /\ call[c].op = "ServerConfigureBonding")

\* C17: outside a ServerConfigureBonding call, for a server with port
\* channels, every identifier a port channel lists is the identifier of a port
\* of the server, and every port of the server is listed by the port channel
\* whose identifier it carries.
C17_ChannelsListTheServersPorts ==
    NoBondingInProgress =>
        \A s \in ServerIds :
            LET chs == servers[s].PortChannels IN
            Len(chs) > 0 =>
                /\ \A k \in 1..Len(chs) : ListedBy(chs[k]) \subseteq PortIdsOf(s)
                /\ \A j \in 1..Len(servers[s].Ports) :
                      \E k \in 1..Len(chs) :
                          /\ chs[k].PortChannelId = servers[s].Ports[j].PortChannelId
                          /\ servers[s].Ports[j].PortId \in ListedBy(chs[k])

\* The internet types ServerAssignNetwork knows, and no internet type.
KnownInternetTypes == {None, Some("common-subnet"), Some("dedicated-subnet")}

\* The request asks for a dedicated subnet without naming one that exists.
NoValidDedicatedSubnet(q) ==
    /\ q.InternetType = Some("dedicated-subnet")
    /\ \/ q.DedicatedSubnetId = None
       \/ getDedicatedSubnetById(q.DedicatedSubnetId[1]) = None

\* C18: a ServerAssignNetwork call whose internet type is absent,
\* common-subnet or dedicated-subnet returns the updated port, NotFound or
\* InvalidRequest; for an existing port, a dedicated-subnet request without a
\* dedicated subnet id or with one that is not in the catalog returns
\* InvalidRequest, and otherwise a private network id that is not known returns
\* InvalidRequest with a message that names it.
C18_AssignNetworkReturnsNormally ==
    \A c \in Clients :
        ( /\ pc[c] = "ret" /\ call[c].op = "ServerAssignNetwork"
          /\ call[c].params.InternetType \in KnownInternetTypes )
        => LET q == call[c].params IN
           /\ result[c].err \in {"", "NotFound", "InvalidRequest"}
           /\ result[c].err = "" => result[c].val = PortValue(call[c].serverId, AssignedPort(c))
           /\ (call[c].port # 0 /\ NoValidDedicatedSubnet(q))
                 => result[c].err = "InvalidRequest"
           /\ ( /\ call[c].port # 0 /\ ~NoValidDedicatedSubnet(q)
                /\ q.PrivateNetworkIds # None
                /\ FirstUnknownPrivateNetwork(q.PrivateNetworkIds[1]) # 0 )
                 => /\ result[c].err = "InvalidRequest"
                    /\ result[c].msg = "invalid private network id: " \o
                          q.PrivateNetworkIds[1][FirstUnknownPrivateNetwork(
                                                     q.PrivateNetworkIds[1])]

\* C19: whoever creates a background action holds the mutex neither shared nor
\* exclusively when it does: a call that launches one is not among the readers
\* or the writer in the state the action first exists in, and the installing
\* step does not hold the mutex in the step in which it launches the clearing
\* step.
C19_NoLockHeldWhenSpawning ==
    [][ /\ \A c \in Clients :
             (Entering(c) /\ tasks' # tasks)
             => (c \notin mu'.readers /\ mu'.writer # ClientHolder(c))
        /\ \A t \in tasks :
             ( /\ t.kind = "osStart" /\ t \notin tasks'
               /\ \E u \in tasks' \ tasks : u.kind = "osFinish" )
             => mu.writer # TaskHolder(t.id) ]_vars

\* Some operation has not returned or some background action has not completed.
Busy == tasks # {} \/ \E c \in Clients : pc[c] # "idle"

\* Every operation has returned, every background action has completed, and
\* the mutex is free.
Quiescent ==
    /\ tasks = {}
    /\ \A c \in Clients : pc[c] = "idle"
    /\ mu = [writer |-> NoHolder, readers |-> {}]

\* C20: under fair scheduling, whenever an operation or a background action
\* is under way, a state follows in which every operation has returned, every
\* action has completed and the mutex is free; and while anything is under
\* way some operation or action can take its next step (nothing under way
\* means the mutex is free).
C20_EverythingCompletes ==
    /\ Busy ~> Quiescent
    /\ [](Busy => ENABLED Progress)
    /\ [](~Busy => Quiescent)

\* The clearing step of an install waits for the mutex, which a power action
\* between its two writes holds.
C20_Witness ==
    \E t, u \in tasks :
        /\ t.kind = "osFinish" /\ t.pc = "sleep"
        /\ u.kind = "power" /\ u.pc = "mid" /\ mu.writer = TaskHolder(u.id)

====
